---- MODULE Spec2Model ----
(***************************************************************************)
(* Model of model/solver.py of PGL-SUM: the scoring metric                 *)
(* evaluate_summary, the weight initializer Solver.init_weights and the    *)
(* training loop Solver.train.                                             *)
(*                                                                         *)
(* Floating-point values are modelled as exact extended rationals <<n,d>>  *)
(* (d > 0 reduced; <<0,0>> is NaN, <<1,0>> is +inf, <<-1,0>> is -inf), so  *)
(* that the IEEE outcomes of x/0 and 0/0 and the behaviour of comparisons  *)
(* with NaN are kept; rounding is not modelled.                            *)
(***************************************************************************)
EXTENDS Integers, Sequences, FiniteSets, TLC

VARIABLES
    \* ---- evaluate_summary ----
    predicted_summary, user_summary, eval_method,
    S, G, f_scores, user, epc, result,
    \* ---- Solver.init_weights ----
    names, init_type, params, idx, ipc,
    \* ---- Solver.train ----
    n_epochs, train_len, batch_size,
    pc, epoch_i, batch_i, video_i, iterator,
    last_loss, current_loss, diff,
    model_params, files, logfile, trace

evalVars == <<predicted_summary, user_summary, eval_method,
              S, G, f_scores, user, epc, result>>
initVars == <<names, init_type, params, idx, ipc>>
trainVars == <<n_epochs, train_len, batch_size, pc, epoch_i, batch_i, video_i,
               iterator, last_loss, current_loss, diff, model_params, files,
               logfile, trace>>
vars == <<evalVars, initVars, trainVars>>
\* what the steps of each of the three functions leave alone
evalOthers == <<initVars, trainVars>>
weightsOthers == <<evalVars, trainVars>>
trainOthers == <<evalVars, initVars>>

(***************************************************************************)
(* Bounds of the model.                                                    *)
(***************************************************************************)
MaxLen == 2
MaxUsers == 2
MaxParams == 3
MaxEpochs == 3
MaxTrainLen == 4
MaxBatchSize == 2

(***************************************************************************)
(* Extended rational arithmetic (numpy float semantics without rounding).  *)
(***************************************************************************)
Abs(x) == IF x < 0 THEN -x ELSE x
Sign(x) == IF x > 0 THEN 1 ELSE IF x < 0 THEN -1 ELSE 0

RECURSIVE GCD(_, _)
GCD(a, b) == IF b = 0 THEN a ELSE GCD(b, a % b)

Norm(n, d) ==
    IF d = 0 THEN <<Sign(n), 0>>
    ELSE LET g == GCD(Abs(n), Abs(d))
         IN  <<(Sign(d) * n) \div g, Abs(d) \div g>>

NaN == <<0, 0>>
Num(k) == <<k, 1>>
IsNaN(x) == x = NaN
IsFinite(x) == x[2] # 0

FAdd(x, y) ==
    IF IsNaN(x) \/ IsNaN(y) THEN NaN
    ELSE IF x[2] = 0 /\ y[2] = 0 THEN (IF x = y THEN x ELSE NaN)
    ELSE Norm(x[1] * y[2] + y[1] * x[2], x[2] * y[2])
FSub(x, y) == FAdd(x, <<-y[1], y[2]>>)
FMul(x, y) == Norm(x[1] * y[1], x[2] * y[2])
FDiv(x, y) == Norm(x[1] * y[2], x[2] * y[1])
\* comparisons: every comparison with NaN is false
FEq(x, y) == ~IsNaN(x) /\ ~IsNaN(y) /\ x = y
FGt(x, y) == ~IsNaN(x) /\ ~IsNaN(y) /\ x # y /\ x[1] * y[2] > y[1] * x[2]
FGe(x, y) == FEq(x, y) \/ FGt(x, y)

(***************************************************************************)
(* evaluate_summary (solver.py 15-44)                                      *)
(***************************************************************************)
Max2(a, b) == IF a > b THEN a ELSE b

\* np.zeros(n, dtype=int)
Ones(n) == [i \in 1..n |-> 1]
Zeros(n) == [i \in 1..n |-> 0]

\* buf[:n] = src
SliceAssign(buf, n, src) ==
    [i \in 1..Len(buf) |-> IF i <= n THEN src[i] ELSE buf[i]]

\* S & G on 0/1 vectors
BitAnd(a, b) == [i \in 1..Len(a) |-> IF a[i] = 1 /\ b[i] = 1 THEN 1 ELSE 0]

RECURSIVE SumSeq(_)
SumSeq(s) == IF s = <<>> THEN 0 ELSE s[1] + SumSeq(Tail(s))

\* lines 31-39: the score one annotator row contributes
FScore(s, g) ==
    LET overlapped == BitAnd(s, g)
        precision == FDiv(Num(SumSeq(overlapped)), Num(SumSeq(s)))
        recall == FDiv(Num(SumSeq(overlapped)), Num(SumSeq(g)))
    IN  IF FEq(FAdd(precision, recall), Num(0))
        THEN Num(0)
        ELSE FDiv(FMul(FMul(FMul(Num(2), precision), recall), Num(100)),
                  FAdd(precision, recall))

\* Python's builtin max(list): keeps the first element unless a later one
\* compares greater
RECURSIVE PyMaxFrom(_, _)
PyMaxFrom(m, s) ==
    IF s = <<>> THEN m
    ELSE PyMaxFrom(IF FGt(s[1], m) THEN s[1] ELSE m, Tail(s))
PyMax(s) == PyMaxFrom(s[1], Tail(s))

\* Python's builtin sum(list), starting from int 0
RECURSIVE PySumFrom(_, _)
PySumFrom(acc, s) ==
    IF s = <<>> THEN acc ELSE PySumFrom(FAdd(acc, s[1]), Tail(s))
PySum(s) == PySumFrom(Num(0), s)

\* lines 41-44
Reduce(scores, method) ==
    IF method = "max" THEN PyMax(scores)
    ELSE FDiv(PySum(scores), Num(Len(scores)))

\* lines 29-39 as a fold; the buffer g is carried from one row to the next
RECURSIVE UserLoop(_, _, _, _)
UserLoop(s, g, rows, scores) ==
    IF rows = <<>> THEN scores
    ELSE LET g2 == SliceAssign(g, Len(rows[1]), rows[1])
         IN  UserLoop(s, g2, Tail(rows), Append(scores, FScore(s, g2)))

\* the whole function, lines 23-44.  On empty vectors the builtin sum returns
\* the Python int 0 and line 34 divides int by int, which raises; on
\* non-empty ones it returns a numpy integer and 0/0 is NaN
evaluate_summary(p, us, method) ==
    LET max_len == Max2(Len(p), Len(us[1]))
        s == SliceAssign(Zeros(max_len), Len(p), p)
        g == Zeros(max_len)
    IN  IF max_len = 0 THEN "ZeroDivisionError"
        ELSE Reduce(UserLoop(s, g, us, <<>>), method)

BitVectors(n) == [1..n -> {0, 1}]
Lengths == 0..MaxLen
Predicted == UNION {BitVectors(n) : n \in Lengths}
UserSummaries ==
    UNION {[1..r -> BitVectors(l)] : <<r, l>> \in (1..MaxUsers) \X Lengths}

EvalIdle ==
    /\ predicted_summary = <<>>
    /\ user_summary = <<<<>>>>
    /\ eval_method = "max"
    /\ S = <<>>
    /\ G = <<>>
    /\ f_scores = <<>>
    /\ user = 0
    /\ epc = "idle"
    /\ result = NaN

EvalInit ==
    /\ predicted_summary \in Predicted
    /\ user_summary \in UserSummaries
    /\ eval_method \in {"max", "avg"}
    /\ S = <<>>
    /\ G = <<>>
    /\ f_scores = <<>>
    /\ user = 0
    /\ epc = "start"
    /\ result = NaN

\* lines 23-28
EvalAlloc ==
    /\ epc = "start"
    /\ LET max_len == Max2(Len(predicted_summary), Len(user_summary[1]))
       IN  /\ S' = SliceAssign(Zeros(max_len), Len(predicted_summary),
                               predicted_summary)
           /\ G' = Zeros(max_len)
    /\ f_scores' = <<>>
    /\ user' = 0
    /\ epc' = "loop"
    /\ UNCHANGED <<predicted_summary, user_summary, eval_method, result>>
    /\ UNCHANGED evalOthers

\* lines 29-39, one iteration
EvalUser ==
    /\ epc = "loop"
    /\ user < Len(user_summary)
    /\ LET g2 == SliceAssign(G, Len(user_summary[1]), user_summary[user + 1])
       IN  /\ G' = g2
           /\ IF Len(S) = 0
              THEN /\ epc' = "ZeroDivisionError"
                   /\ UNCHANGED <<f_scores, user>>
              ELSE /\ f_scores' = Append(f_scores, FScore(S, g2))
                   /\ user' = user + 1
                   /\ epc' = epc
    /\ UNCHANGED <<predicted_summary, user_summary, eval_method, S, result>>
    /\ UNCHANGED evalOthers

\* lines 41-44
EvalReturn ==
    /\ epc = "loop"
    /\ user = Len(user_summary)
    /\ result' = Reduce(f_scores, eval_method)
    /\ epc' = "done"
    /\ UNCHANGED <<predicted_summary, user_summary, eval_method, S, G,
                   f_scores, user>>
    /\ UNCHANGED evalOthers

(***************************************************************************)
(* Solver.init_weights (solver.py 82-102)                                  *)
(*                                                                         *)
(* A parameter name is a sequence of tokens; `tok in name` is token        *)
(* membership.  A parameter value is "default" (as the framework built     *)
(* it), <<"init", policy>> (drawn by that policy) or <<"constant", c>>.    *)
(***************************************************************************)
Contains(name, tok) == \E i \in 1..Len(name) : name[i] = tok

ParamNames ==
    { <<"linear", "weight">>, <<"linear", "bias">>,
      <<"norm", "weight">>, <<"norm", "bias">>,
      <<"weight", "bias">>, <<"pos", "embedding">> }

SupportedTypes == {"normal", "xavier", "kaiming", "orthogonal"}
InitTypes == SupportedTypes \cup {"uniform"}

\* line 90
IsWeightName_NoNormTest(name) == Contains(name, "weight")
IsWeightName(name) == Contains(name, "weight") /\ ~Contains(name, "norm")

\* line 101
IsBiasName(name) == Contains(name, "bias")

\* line 102: nn.init.constant_(param, 0.1)
BiasValue == <<"constant", <<1, 10>>>>

\* lines 91-100: the value the policy draws, or "raise"
PolicyInit(type) ==
    IF type = "normal" THEN <<"init", "normal">>
    ELSE IF type = "xavier" THEN <<"init", "xavier">>
    ELSE IF type = "kaiming" THEN <<"init", "kaiming">>
    ELSE IF type = "orthogonal" THEN <<"init", "orthogonal">>
    ELSE "raise"

RECURSIVE NameLists(_)
NameLists(n) ==
    IF n = 0 THEN {<<>>}
    ELSE LET shorter == NameLists(n - 1)
         IN  shorter \cup
             { Append(l, x) : <<l, x>> \in
                 { <<l, x>> \in shorter \X ParamNames :
                     /\ Len(l) = n - 1
                     /\ \A i \in 1..Len(l) : l[i] # x } }

InitIdle ==
    /\ names = <<>>
    /\ init_type = "xavier"
    /\ params = <<>>
    /\ idx = 0
    /\ ipc = "idle"

InitInit ==
    /\ names \in NameLists(MaxParams)
    /\ init_type \in InitTypes
    /\ params = [i \in 1..Len(names) |-> "default"]
    /\ idx = 0
    /\ ipc = "loop"

\* lines 89-102, one iteration of the loop over net.named_parameters()
InitParam ==
    /\ ipc = "loop"
    /\ idx < Len(names)
    /\ LET name == names[idx + 1]
       IN  IF IsWeightName(name)
           THEN IF PolicyInit(init_type) = "raise"
                THEN /\ ipc' = "raised"
                     /\ UNCHANGED <<params, idx>>
                ELSE /\ params' = [params EXCEPT ![idx + 1] = PolicyInit(init_type)]
                     /\ idx' = idx + 1
                     /\ ipc' = ipc
           ELSE IF IsBiasName(name)
           THEN /\ params' = [params EXCEPT ![idx + 1] = BiasValue]
                /\ idx' = idx + 1
                /\ ipc' = ipc
           ELSE /\ idx' = idx + 1
                /\ UNCHANGED <<params, ipc>>
    /\ UNCHANGED <<names, init_type>>
    /\ UNCHANGED weightsOthers

\* the loop is exhausted: init_weights returns
InitReturn ==
    /\ ipc = "loop"
    /\ idx = Len(names)
    /\ ipc' = "done"
    /\ UNCHANGED <<names, init_type, params, idx>>
    /\ UNCHANGED weightsOthers

(***************************************************************************)
(* Solver.train (solver.py 106-181)                                        *)
(*                                                                         *)
(* model_params counts the optimizer steps applied to the parameters;      *)
(* files maps a path to the parameters stored there; trace lists the       *)
(* events of the current epoch; a log line keeps the epoch, loss and diff  *)
(* fields (the F1 fields come from Solver.evaluate, which is not           *)
(* modelled).                                                              *)
(***************************************************************************)
\* line 108
tol == 7
\* line 107
InitialLastLoss == 100000

\* per-epoch mean losses (line 150) the model draws from
LossValues == {0, 93, 100, 107, 108, 107527}

\* int(x) for a finite x: truncation toward zero
PyInt(x) ==
    IF x[1] >= 0 THEN x[1] \div x[2] ELSE -((-x[1]) \div x[2])

\* line 117
NumBatches_Ceil(n, b) == (n + b - 1) \div b
NumBatches(n, b) == PyInt(FDiv(Num(n), Num(b)))

\* line 154
Diff_OverLast(current, last) ==
    FMul(FDiv(FSub(current, last), last), Num(100))
Diff(current, last) ==
    FMul(FDiv(FSub(current, last), current), Num(100))

\* line 156
ShouldStop_Strict(d) == FGt(d, Num(tol))
ShouldStop(d) == FGe(d, Num(tol))

\* lines 167-168
CkptPath_PerEpoch(epoch) == <<"save_dir", "epoch", epoch>>
CkptPath(epoch) == <<"save_dir", "last_epoch.pkl">>

\* line 178: logfile.write(...) on a file opened once, in line 109
LogWrite_Rewriting(file, line) == <<line>>
LogWrite(file, line) == Append(file, line)

StaleLine == [epoch |-> 0, loss |-> Num(1), diff |-> Num(0)]

TrainIdle ==
    /\ n_epochs = 0
    /\ train_len = 0
    /\ batch_size = 1
    /\ pc = "off"
    /\ epoch_i = 0
    /\ batch_i = 0
    /\ video_i = 0
    /\ iterator = 0
    /\ last_loss = NaN
    /\ current_loss = NaN
    /\ diff = NaN
    /\ model_params = 0
    /\ files = <<>>
    /\ logfile = <<>>
    /\ trace = <<>>

TrainInit ==
    /\ n_epochs \in 0..MaxEpochs
    /\ train_len \in 0..MaxTrainLen
    /\ batch_size \in 1..MaxBatchSize
    /\ pc = "idle"
    /\ epoch_i = 0
    /\ batch_i = 0
    /\ video_i = 0
    /\ iterator = 0
    /\ last_loss = NaN
    /\ current_loss = NaN
    /\ diff = NaN
    /\ model_params = 0
    /\ files = <<>>
    /\ logfile \in {<<>>, <<StaleLine>>}
    /\ trace = <<>>

\* lines 107-109: open('trainlog.txt', 'w') truncates the file
TrainOpen ==
    /\ pc = "idle"
    /\ last_loss' = Num(InitialLastLoss)
    /\ logfile' = <<>>
    /\ epoch_i' = 0
    /\ pc' = "epoch"
    /\ UNCHANGED <<n_epochs, train_len, batch_size, batch_i, video_i, iterator,
                   current_loss, diff, model_params, files, trace>>
    /\ UNCHANGED trainOthers

\* lines 112-118: the next epoch begins, with a fresh iterator
EpochStart ==
    /\ pc = "epoch"
    /\ epoch_i < n_epochs
    /\ batch_i' = 0
    /\ iterator' = 0
    /\ trace' = <<>>
    /\ pc' = "batch"
    /\ UNCHANGED <<n_epochs, train_len, batch_size, epoch_i, video_i, last_loss,
                   current_loss, diff, model_params, files, logfile>>
    /\ UNCHANGED trainOthers

\* line 112: the epochs are exhausted
TrainReturn ==
    /\ pc = "epoch"
    /\ epoch_i >= n_epochs
    /\ pc' = "done"
    /\ UNCHANGED <<n_epochs, train_len, batch_size, epoch_i, batch_i, video_i,
                   iterator, last_loss, current_loss, diff, model_params, files,
                   logfile, trace>>
    /\ UNCHANGED trainOthers

\* lines 119-124
BatchStart ==
    /\ pc = "batch"
    /\ batch_i < NumBatches(train_len, batch_size)
    /\ trace' = Append(trace, <<"zero_grad">>)
    /\ video_i' = 0
    /\ pc' = "video"
    /\ UNCHANGED <<n_epochs, train_len, batch_size, epoch_i, batch_i, iterator,
                   last_loss, current_loss, diff, model_params, files, logfile>>
    /\ UNCHANGED trainOthers

\* lines 125-144: next(iterator), forward, loss, backward
Video ==
    /\ pc = "video"
    /\ video_i < batch_size
    /\ IF iterator < train_len
       THEN /\ iterator' = iterator + 1
            /\ trace' = Append(trace, <<"video", iterator + 1>>)
            /\ video_i' = video_i + 1
            /\ pc' = pc
       ELSE /\ pc' = "StopIteration"
            /\ UNCHANGED <<iterator, trace, video_i>>
    /\ UNCHANGED <<n_epochs, train_len, batch_size, epoch_i, batch_i, last_loss,
                   current_loss, diff, model_params, files, logfile>>
    /\ UNCHANGED trainOthers

\* line 146
Clip ==
    /\ pc = "video"
    /\ video_i = batch_size
    /\ trace' = Append(trace, <<"clip">>)
    /\ pc' = "step"
    /\ UNCHANGED <<n_epochs, train_len, batch_size, epoch_i, batch_i, video_i,
                   iterator, last_loss, current_loss, diff, model_params, files,
                   logfile>>
    /\ UNCHANGED trainOthers

\* line 147
Step ==
    /\ pc = "step"
    /\ trace' = Append(trace, <<"step">>)
    /\ model_params' = model_params + 1
    /\ batch_i' = batch_i + 1
    /\ pc' = "batch"
    /\ UNCHANGED <<n_epochs, train_len, batch_size, epoch_i, video_i, iterator,
                   last_loss, current_loss, diff, files, logfile>>
    /\ UNCHANGED trainOthers

\* lines 149-157: torch.stack of an empty loss_history raises; otherwise the
\* mean loss, diff, the update of last_loss and the early-stopping test
EpochEnd ==
    /\ pc = "batch"
    /\ batch_i >= NumBatches(train_len, batch_size)
    /\ IF iterator = 0
       THEN /\ pc' = "RuntimeError"
            /\ UNCHANGED <<last_loss, current_loss, diff>>
       ELSE \E loss \in LossValues :
            /\ current_loss' = Num(loss)
            /\ diff' = Diff(Num(loss), last_loss)
            /\ last_loss' = Num(loss)
            /\ pc' = IF ShouldStop(Diff(Num(loss), last_loss)) THEN "done" ELSE "save"
    /\ UNCHANGED <<n_epochs, train_len, batch_size, epoch_i, batch_i, video_i,
                   iterator, model_params, files, logfile, trace>>
    /\ UNCHANGED trainOthers

\* lines 163-171
Save ==
    /\ pc = "save"
    /\ files' = [p \in DOMAIN files \cup {CkptPath(epoch_i)} |->
                    IF p = CkptPath(epoch_i) THEN model_params ELSE files[p]]
    /\ trace' = Append(trace, <<"save">>)
    /\ pc' = "eval"
    /\ UNCHANGED <<n_epochs, train_len, batch_size, epoch_i, batch_i, video_i,
                   iterator, last_loss, current_loss, diff, model_params, logfile>>
    /\ UNCHANGED trainOthers

\* lines 174-176
Evaluate ==
    /\ pc = "eval"
    /\ trace' = Append(trace, <<"eval">>)
    /\ pc' = "log"
    /\ UNCHANGED <<n_epochs, train_len, batch_size, epoch_i, batch_i, video_i,
                   iterator, last_loss, current_loss, diff, model_params, files,
                   logfile>>
    /\ UNCHANGED trainOthers

\* lines 178-181, then the loop's next epoch index
Log ==
    /\ pc = "log"
    /\ logfile' = LogWrite(logfile, [epoch |-> epoch_i, loss |-> current_loss,
                                      diff |-> diff])
    /\ trace' = Append(trace, <<"log">>)
    /\ epoch_i' = epoch_i + 1
    /\ pc' = "epoch"
    /\ UNCHANGED <<n_epochs, train_len, batch_size, batch_i, video_i, iterator,
                   last_loss, current_loss, diff, model_params, files>>
    /\ UNCHANGED trainOthers

(***************************************************************************)
(* Specifications                                                          *)
(***************************************************************************)
Init == TrainInit /\ EvalIdle /\ InitIdle
Next ==
    \/ TrainOpen
    \/ EpochStart
    \/ TrainReturn
    \/ BatchStart
    \/ Video
    \/ Clip
    \/ Step
    \/ EpochEnd
    \/ Save
    \/ Evaluate
    \/ Log
Spec == Init /\ [][Next]_vars

SpecEvalInit == EvalInit /\ InitIdle /\ TrainIdle
SpecEvalNext == EvalAlloc \/ EvalUser \/ EvalReturn
SpecEval == SpecEvalInit /\ [][SpecEvalNext]_vars

SpecWeightsInit == InitInit /\ EvalIdle /\ TrainIdle
SpecWeightsNext == InitParam \/ InitReturn
SpecWeights == SpecWeightsInit /\ [][SpecWeightsNext]_vars

(***************************************************************************)
(* Properties of evaluate_summary, checked under SpecEval                  *)
(***************************************************************************)
PadRight(s, n) == [i \in 1..n |-> IF i <= Len(s) THEN s[i] ELSE 0]
MaxLenOfInputs == Max2(Len(predicted_summary), Len(user_summary[1]))
RowOrders(n) ==
    {f \in [1..n -> 1..n] : \A i, j \in 1..n : f[i] = f[j] => i = j}

\* C2: for every 0/1 predicted vector, every R x L 0/1 user-summary matrix
\* with R >= 1 and either policy, the value evaluate_summary returns is a
\* finite number between 0 and 100.
C2_ScoreInRange ==
    epc = "done" =>
        /\ IsFinite(result)
        /\ FGe(result, Num(0))
        /\ FGe(Num(100), result)

\* C3: for inputs of equal frame length, evaluating any permutation of the
\* annotator rows returns the value evaluate_summary returned, under both
\* policies.
C3_RowOrderInvariant ==
    (epc = "done" /\ Len(predicted_summary) = Len(user_summary[1])) =>
        \A f \in RowOrders(Len(user_summary)) :
            evaluate_summary(predicted_summary,
                             [r \in 1..Len(user_summary) |-> user_summary[f[r]]],
                             eval_method) = result

\* C7: zero-padding law.  S and G hold the predicted vector and the current
\* annotator row extended on the right with 0 to the common length, for
\* every row, and the returned value is the value returned on the inputs
\* explicitly extended with 0 to that length.
C7_ZeroPaddingLaw ==
    /\ epc \in {"loop", "done"} =>
        /\ S = PadRight(predicted_summary, MaxLenOfInputs)
        /\ user > 0 => G = PadRight(user_summary[user], MaxLenOfInputs)
    /\ epc = "done" =>
        result = evaluate_summary(
                    PadRight(predicted_summary, MaxLenOfInputs),
                    [r \in 1..Len(user_summary) |->
                        PadRight(user_summary[r], MaxLenOfInputs)],
                    eval_method)

\* a run on a predicted vector shorter than the rows, where the first row
\* selects a frame beyond the predicted vector that the last row does not,
\* and the score is positive
C7_Witness ==
    /\ epc = "done"
    /\ Len(user_summary) >= 2
    /\ Len(predicted_summary) < Len(user_summary[1])
    /\ \E i \in (Len(predicted_summary) + 1)..Len(user_summary[1]) :
           /\ user_summary[1][i] = 1
           /\ user_summary[Len(user_summary)][i] = 0
    /\ IsFinite(result)
    /\ FGt(result, Num(0))

(***************************************************************************)
(* Properties of Solver.init_weights, checked under SpecWeights            *)
(***************************************************************************)
\* C4: when init_weights raises for an unsupported policy, every parameter
\* has the value it had before the call.
C4_AllOrNothing ==
    ipc = "raised" => \A i \in 1..Len(params) : params[i] = "default"

\* C5 as stated: after init_weights completes with a supported policy,
\* every parameter whose name contains 'bias' equals 0.1, and every
\* parameter whose name contains neither a non-norm 'weight' nor 'bias' is
\* unchanged.
C5_EveryBiasIsConstant ==
    (ipc = "done" /\ init_type \in SupportedTypes) =>
        \A i \in 1..Len(names) :
            /\ Contains(names[i], "bias") => params[i] = <<"constant", <<1, 10>>>>
            /\ ( /\ ~(Contains(names[i], "weight") /\ ~Contains(names[i], "norm"))
                 /\ ~Contains(names[i], "bias") ) => params[i] = "default"

\* C5 amended: after init_weights completes with a supported policy, every
\* parameter whose name contains 'bias' and is not a non-norm 'weight' name
\* equals 0.1, every non-norm 'weight' name (one that also contains 'bias'
\* included) holds the policy's draw, and every other parameter is
\* unchanged.
C5_BiasUnlessWeight ==
    (ipc = "done" /\ init_type \in SupportedTypes) =>
        \A i \in 1..Len(names) :
            LET w == Contains(names[i], "weight") /\ ~Contains(names[i], "norm")
                b == Contains(names[i], "bias")
            IN  /\ (b /\ ~w) => params[i] = <<"constant", <<1, 10>>>>
                /\ w => params[i] = <<"init", init_type>>
                /\ (~w /\ ~b) => params[i] = "default"

\* a completed call on a net with a name holding both 'weight' and 'bias',
\* a norm weight and a norm bias
C5_Witness ==
    /\ ipc = "done"
    /\ init_type \in SupportedTypes
    /\ \E i, j, k \in 1..Len(names) :
           /\ names[i] = <<"weight", "bias">>
           /\ names[j] = <<"norm", "bias">>
           /\ names[k] = <<"norm", "weight">>

(***************************************************************************)
(* Properties of Solver.train, checked under Spec                          *)
(***************************************************************************)
IsPrefix(a, b) == Len(a) <= Len(b) /\ SubSeq(b, 1, Len(a)) = a
IsTailEvent(e) == e[1] \in {"save", "eval", "log"}
IsTrainEvent(e) == ~IsTailEvent(e)
TailEvents == SelectSeq(trace, IsTailEvent)
TrainEvents == SelectSeq(trace, IsTrainEvent)
SaveEvents == SelectSeq(trace, LAMBDA e : e[1] = "save")
LastEpochPath == <<"save_dir", "last_epoch.pkl">>
\* the loop was left by the break of line 157
Broke == pc = "done" /\ epoch_i < n_epochs
\* the loss of the epoch before the current one, as the log recorded it
PrevLoss ==
    IF Len(logfile) = 0 THEN 100000 ELSE logfile[Len(logfile)].loss[1]

\* C1: the loop halts at the first epoch whose diff is >= 7: every epoch
\* that went on to save, evaluate or log had diff < 7, and once diff >= 7
\* the loop has been left in that epoch with no save, evaluation or log
\* line in it and no line for it in the log.
C1_HaltsAtFirstLargeDiff ==
    /\ pc # "idle" => \A k \in 1..Len(logfile) : ~FGe(logfile[k].diff, Num(7))
    /\ pc \in {"save", "eval", "log"} => ~FGe(diff, Num(7))
    /\ FGe(diff, Num(7)) =>
        /\ Broke
        /\ TailEvents = <<>>
        /\ Len(logfile) = epoch_i

\* a break in the second epoch with a further epoch still configured
C1_Witness ==
    /\ Broke
    /\ FGe(diff, Num(7))
    /\ epoch_i = 1
    /\ n_epochs >= 3

\* C6 as stated: at most one save per epoch, always to
\* <save_dir>/last_epoch.pkl, and when train has terminated the stored
\* parameters are the model parameters at the end of the final epoch run.
C6_FinalEpochRetained ==
    /\ Len(SaveEvents) <= 1
    /\ DOMAIN files \subseteq {LastEpochPath}
    /\ (pc = "done" /\ LastEpochPath \in DOMAIN files) =>
           files[LastEpochPath] = model_params

\* C6 amended: at most one save per epoch, always to
\* <save_dir>/last_epoch.pkl, and when train has terminated the stored
\* parameters are the model parameters at the end of the last epoch that
\* did not trigger early stopping (after that many epochs' optimizer
\* steps); if no epoch got that far nothing is stored.
C6_LastSavedEpochRetained ==
    /\ Len(SaveEvents) <= 1
    /\ DOMAIN files \subseteq {LastEpochPath}
    /\ pc = "done" =>
           IF Len(logfile) = 0
           THEN DOMAIN files = {}
           ELSE /\ LastEpochPath \in DOMAIN files
                /\ files[LastEpochPath] =
                       Len(logfile) * (train_len \div batch_size)

\* two epochs saved, the third broke: the file holds the second epoch's
\* parameters, not the model's
C6_Witness ==
    /\ Broke
    /\ Len(logfile) = 2
    /\ LastEpochPath \in DOMAIN files
    /\ files[LastEpochPath] # model_params

\* C8, the state part: the log holds exactly the lines of epochs
\* 0 .. epoch_i - 1 in order, and the save, the evaluation and the log line
\* of an epoch come once each, in this order, after its training events.
C8_LogState ==
    pc # "idle" =>
        /\ Len(logfile) = epoch_i
        /\ \A k \in 1..Len(logfile) : logfile[k].epoch = k - 1
        /\ trace = TrainEvents \o TailEvents
        /\ TailEvents =
             IF pc = "eval" THEN << <<"save">> >>
             ELSE IF pc = "log" THEN << <<"save">>, <<"eval">> >>
             ELSE IF epoch_i > 0 /\ (pc = "epoch" \/ (pc = "done" /\ ~Broke))
                  THEN << <<"save">>, <<"eval">>, <<"log">> >>
             ELSE <<>>

BatchEvents(b, bs) ==
    << <<"zero_grad">> >>
    \o [j \in 1..bs |-> <<"video", b * bs + j>>]
    \o << <<"clip">>, <<"step">> >>

RECURSIVE EpochEvents(_, _)
EpochEvents(nb, bs) ==
    IF nb = 0 THEN <<>>
    ELSE EpochEvents(nb - 1, bs) \o BatchEvents(nb - 1, bs)

\* C9: in each epoch exactly floor(N/B) batches run, each one gradient
\* reset, B forward/backward passes on the next B videos of a fresh
\* iterator, one clip and one optimizer step, in this order; the epoch has
\* read floor(N/B)*B <= N videos when its batches are over, and the
\* iterator is never read past its end.
C9_BatchesOfAnEpoch ==
    LET nb == train_len \div batch_size
    IN  /\ pc # "StopIteration"
        /\ iterator <= train_len
        /\ pc \notin {"idle", "epoch"} =>
               IsPrefix(TrainEvents, EpochEvents(nb, batch_size))
        /\ (pc \in {"save", "eval", "log"} \/ Broke) =>
               /\ TrainEvents = EpochEvents(nb, batch_size)
               /\ batch_i = nb
               /\ iterator = nb * batch_size

\* a second epoch over 3 videos in batches of 2: one batch, one video unread
C9_Witness ==
    /\ pc = "save"
    /\ epoch_i = 1
    /\ train_len = 3
    /\ batch_size = 2
    /\ iterator = 2

====
